---- MODULE Spec2Model ----
(***************************************************************************)
(* Locksmith: the pthreads interposer (handler.c) over the lock-tracking   *)
(* engine (registry, per-thread held sequence, order graph, hooks).        *)
(*                                                                         *)
(* The wrappers of handler.c are modelled step by step: the tracker holds  *)
(* no internal lock between a pre-hook, the real primitive and the         *)
(* post-hook, so each of the three is one atomic step of the calling       *)
(* thread and other threads may run in between.                            *)
(***************************************************************************)
EXTENDS Integers, Sequences, FiniteSets, TLC

\* ------------------------------------------------------------------ errno
EPERM == 1
ENOENT == 2
EAGAIN == 11
ENOMEM == 12
EBUSY == 16
EINVAL == 22
EDEADLK == 35
ETIMEDOUT == 110

\* ------------------------------------------------------------------ bounds
\* Longest list of recorded diagnostics; a step that would record more is
\* not taken.
MaxErrors == 1
\* Longest held sequence; an acquisition that would exceed it is not started.
MaxHeld == 2
\* Most wrapper calls the callers make in one run of Spec, of SpecOrder and
\* of SpecClean.
MaxCalls == 5
MaxOrderCalls == 7
MaxCleanCalls == 8
\* Deepest recursive acquisition of a recursive mutex (EAGAIN beyond it).
MaxRecursion == 2
\* Longest list the recorder is driven to in SpecRecorder.
MaxRecorded == 2

Threads == {"A", "B"}
Mutexes == {"L1", "L2", "L3"}
Spins == {"S1"}
Locks == Mutexes \cup Spins
\* The locks the callers of Spec use, and those of SpecOrder and SpecClean.
SpecLocks == {"L1", "S1"}
OrderLocks == {"L1", "L2", "L3"}
NoThread == "nobody"
NoLock == "nolock"

\* Mutex types as <pthread.h> numbers them; NoAttr is a null attribute pointer.
PTHREAD_MUTEX_TIMED_NP == 0
PTHREAD_MUTEX_RECURSIVE == 1
PTHREAD_MUTEX_ERRORCHECK == 2
PTHREAD_MUTEX_ADAPTIVE_NP == 3
PTHREAD_MUTEX_FAST_NP == 0
PTHREAD_MUTEX_NORMAL == 0
PTHREAD_MUTEX_DEFAULT == 0
NoAttr == -1
MutexTypes == {PTHREAD_MUTEX_NORMAL, PTHREAD_MUTEX_RECURSIVE,
               PTHREAD_MUTEX_ERRORCHECK, PTHREAD_MUTEX_ADAPTIVE_NP}

VARIABLES
    table,              \* LockRegistry.table: ids that have a live record
    before,             \* order graph: before[l] = ids held when l was acquired
    held,               \* ThreadState.held of every thread, oldest first
    g_recorded_errors,  \* the recorder's list, newest first
    real,               \* the thread library's own state of every primitive
    pc,                 \* where every thread is inside a wrapper
    reported,           \* edges inserted by an acquisition prelock reported
    ncalls              \* wrapper calls made so far

vars == <<table, before, held, g_recorded_errors, real, pc, reported, ncalls>>

\* ------------------------------------------------------------- sequences
Range(s) == {s[i] : i \in 1..Len(s)}

\* ------------------------------------------------------------ order graph
\* Edge a -> b is stored as a \in g[b].
Succ(g, a) == {b \in Locks : a \in g[b]}

RECURSIVE ReachFrom(_, _, _)
ReachFrom(g, frontier, seen) ==
    IF frontier = {} THEN seen
    ELSE LET nxt == UNION {Succ(g, a) : a \in frontier}
         IN ReachFrom(g, nxt \ seen, seen \cup nxt)

\* x is reachable from l through one or more edges of g
Reachable(g, l, x) == x \in ReachFrom(g, {l}, {})

\* ------------------------------------------------------- diagnostic sink
\* record_error pushes at the head of the list.
record_error(list, code) == <<code>> \o list

RECURSIVE record_all(_, _)
record_all(list, codes) ==
    IF codes = <<>> THEN list
    ELSE record_all(record_error(list, Head(codes)), Tail(codes))

\* ------------------------------------------------------------------ hooks
lksmith_optional_init(tbl, l) == tbl \cup {l}

\* The held locks the admission check objects to, in held order.
Inversions(g, h, l) ==
    SelectSeq(h, LAMBDA x : x # l /\ Reachable(g, l, x))

\* One EDEADLK diagnostic for every held lock reachable from l.
lksmith_prelock_codes(g, h, l) ==
    [i \in 1..Len(Inversions(g, h, l)) |-> EDEADLK]

lksmith_prelock_ret == 0

lksmith_postlock_before(g, h, l, code) ==
    IF code = 0 THEN [g EXCEPT ![l] = @ \cup Range(h)] ELSE g

lksmith_postlock_held(h, l, code) ==
    IF code = 0 THEN Append(h, l) ELSE h

lksmith_preunlock_ret(h, l) == IF l \in Range(h) THEN 0 ELSE EPERM

lksmith_postunlock_held(h, l) == SelectSeq(h, LAMBDA x : x # l)

InUse(l) == \E t \in Threads : l \in Range(held[t])

lksmith_destroy_ret(tbl, l) ==
    IF l \notin tbl THEN ENOENT
    ELSE IF InUse(l) THEN EBUSY
    ELSE 0

lksmith_destroy_table(tbl, l) ==
    IF lksmith_destroy_ret(tbl, l) = 0 THEN tbl \ {l} ELSE tbl

\* Mutant: a successful destroy drops every edge into and out of the lock.
lksmith_destroy_before_Prune(g, tbl, l) ==
    IF lksmith_destroy_ret(tbl, l) = 0
    THEN [m \in Locks |-> IF m = l THEN {} ELSE g[m] \ {l}]
    ELSE g

\* Destroying a lock removes its record and leaves every edge in place.
lksmith_destroy_before(g, tbl, l) == g

\* --------------------------------------------------- the real primitives
\* Outcomes of a call as a set of [ret, st]: the code returned and the
\* primitive's state afterwards.  The empty set is a call that blocks.
Free(st) == st.owner = NoThread

Acquire(st, t) == [st EXCEPT !.owner = t, !.count = 1]

Release(st) ==
    IF st.count > 1 THEN [st EXCEPT !.count = @ - 1]
    ELSE [st EXCEPT !.owner = NoThread, !.count = 0]

Relock(st, t, busy) ==
    CASE st.type = "recursive" ->
            IF st.count < MaxRecursion
            THEN {[ret |-> 0, st |-> [st EXCEPT !.count = @ + 1]]}
            ELSE {[ret |-> EAGAIN, st |-> st]}
      [] st.type = "errorcheck" -> {[ret |-> busy, st |-> st]}
      [] OTHER -> IF busy = EDEADLK THEN {} ELSE {[ret |-> busy, st |-> st]}

r_pthread_mutex_lock(st, t) ==
    IF Free(st) THEN {[ret |-> 0, st |-> Acquire(st, t)]}
    ELSE IF st.owner = t THEN Relock(st, t, EDEADLK)
    ELSE {}

r_pthread_mutex_trylock(st, t) ==
    IF Free(st) THEN {[ret |-> 0, st |-> Acquire(st, t)]}
    ELSE IF st.owner = t THEN Relock(st, t, EBUSY)
    ELSE {[ret |-> EBUSY, st |-> st]}

r_pthread_mutex_timedlock(st, t) ==
    IF Free(st) THEN {[ret |-> 0, st |-> Acquire(st, t)]}
    ELSE IF st.owner = t /\ st.type \in {"recursive", "errorcheck"}
         THEN Relock(st, t, EDEADLK)
    ELSE {[ret |-> ETIMEDOUT, st |-> st]}

r_pthread_mutex_unlock(st, t) ==
    IF st.owner = t THEN {[ret |-> 0, st |-> Release(st)]}
    ELSE IF st.type \in {"recursive", "errorcheck"}
         THEN {[ret |-> EPERM, st |-> st]}
    ELSE {[ret |-> 0, st |-> [st EXCEPT !.owner = NoThread, !.count = 0]],
          [ret |-> EPERM, st |-> st]}

r_pthread_spin_lock(st, t) ==
    IF Free(st) THEN {[ret |-> 0, st |-> Acquire(st, t)]} ELSE {}

r_pthread_spin_trylock(st, t) ==
    IF Free(st) THEN {[ret |-> 0, st |-> Acquire(st, t)]}
    ELSE {[ret |-> EBUSY, st |-> st]}

r_pthread_spin_unlock(st, t) ==
    {[ret |-> 0, st |-> [st EXCEPT !.owner = NoThread, !.count = 0]]}

\* ---------------------------------------------------------------- state
\* A thread outside every wrapper.  Inside an init wrapper, had tells whether
\* the lock had a record when the wrapper was entered.
Idle == [stage |-> "idle", op |-> "none", lock |-> NoLock, arg |-> NoAttr,
         ret |-> 0, diag |-> FALSE, called |-> 0, realret |-> 0, had |-> FALSE]

StaticMutex == [type |-> "normal", owner |-> NoThread, count |-> 0]
NoPrimitive == [type |-> "none", owner |-> NoThread, count |-> 0]

Init ==
    /\ table = {}
    /\ before = [l \in Locks |-> {}]
    /\ held = [t \in Threads |-> <<>>]
    /\ g_recorded_errors = <<>>
    /\ real = [l \in Locks |-> IF l \in Mutexes THEN StaticMutex ELSE NoPrimitive]
    /\ pc = [t \in Threads |-> Idle]
    /\ reported = {}
    /\ ncalls = 0

\* ------------------------------------------------ wrappers: the lock path
MutexLockOps == {"mutex_lock", "mutex_trylock", "mutex_timedlock"}
SpinLockOps == {"spin_lock", "spin_trylock"}
LockOps == MutexLockOps \cup SpinLockOps

\* The real primitive a lock wrapper calls.
RealLock(op, st, t) ==
    CASE op = "mutex_lock" -> r_pthread_mutex_lock(st, t)
      [] op = "mutex_trylock" -> r_pthread_mutex_trylock(st, t)
      [] op = "mutex_timedlock" -> r_pthread_mutex_timedlock(st, t)
      [] op = "spin_lock" -> r_pthread_spin_lock(st, t)
      [] op = "spin_trylock" -> r_pthread_spin_trylock(st, t)

\* ret = lksmith_prelock(lock, sleeper); if (ret) return ret;
LockEnter(t, l, op) ==
    /\ pc[t].stage = "idle"
    /\ ncalls' = ncalls + 1
    /\ real[l].type # "none"
    /\ Len(held[t]) < MaxHeld
    /\ LET codes == lksmith_prelock_codes(before, held[t], l)
           ret == lksmith_prelock_ret
       IN /\ Len(g_recorded_errors) + Len(codes) <= MaxErrors
          /\ table' = lksmith_optional_init(table, l)
          /\ g_recorded_errors' = record_all(g_recorded_errors, codes)
          /\ pc' = [pc EXCEPT ![t] =
                      [Idle EXCEPT !.stage = IF ret # 0 THEN "ret" ELSE "lock_real",
                                   !.op = op, !.lock = l, !.ret = ret,
                                   !.diag = (codes # <<>>)]]
    /\ UNCHANGED <<before, held, real, reported>>

\* Mutant: trylock goes straight to the real primitive, without prelock.
pthread_mutex_trylock_NoPrelock(t, l) ==
    /\ l \in Mutexes
    /\ pc[t].stage = "idle"
    /\ real[l].type # "none"
    /\ Len(held[t]) < MaxHeld
    /\ ncalls' = ncalls + 1
    /\ pc' = [pc EXCEPT ![t] = [Idle EXCEPT !.stage = "lock_real",
                                            !.op = "mutex_trylock", !.lock = l]]
    /\ UNCHANGED <<table, before, held, g_recorded_errors, real, reported>>

pthread_mutex_trylock(t, l) == l \in Mutexes /\ LockEnter(t, l, "mutex_trylock")

pthread_mutex_lock(t, l) == l \in Mutexes /\ LockEnter(t, l, "mutex_lock")

pthread_mutex_timedlock(t, l) == l \in Mutexes /\ LockEnter(t, l, "mutex_timedlock")

pthread_spin_lock(t, l) == l \in Spins /\ LockEnter(t, l, "spin_lock")

pthread_spin_trylock(t, l) == l \in Spins /\ LockEnter(t, l, "spin_trylock")

\* ret = r_pthread_..._lock(lock);
LockReal(t) ==
    /\ pc[t].stage = "lock_real"
    /\ \E o \in RealLock(pc[t].op, real[pc[t].lock], t) :
          /\ real' = [real EXCEPT ![pc[t].lock] = o.st]
          /\ pc' = [pc EXCEPT ![t] = [@ EXCEPT !.stage = "lock_post", !.ret = o.ret,
                                               !.called = @ + 1, !.realret = o.ret]]
    /\ UNCHANGED <<table, before, held, g_recorded_errors, reported, ncalls>>

\* Mutant: the wrapper returns 0 after postlock, as the unlock wrappers do.
LockPost_Return0(t) ==
    /\ pc[t].stage = "lock_post"
    /\ before' = lksmith_postlock_before(before, held[t], pc[t].lock, pc[t].ret)
    /\ held' = [held EXCEPT ![t] = lksmith_postlock_held(@, pc[t].lock, pc[t].ret)]
    /\ reported' = IF pc[t].ret = 0 /\ pc[t].diag
                   THEN reported \cup {<<x, pc[t].lock>> : x \in Range(held[t])}
                   ELSE reported
    /\ pc' = [pc EXCEPT ![t] = [@ EXCEPT !.stage = "ret", !.ret = 0]]
    /\ UNCHANGED <<table, g_recorded_errors, real, ncalls>>

\* Mutant: the wrapper returns without calling postlock.
LockPost_NoPostlock(t) ==
    /\ pc[t].stage = "lock_post"
    /\ pc' = [pc EXCEPT ![t] = [@ EXCEPT !.stage = "ret"]]
    /\ UNCHANGED <<table, before, held, g_recorded_errors, real, reported, ncalls>>

\* Mutant: the wrapper tells postlock the acquisition succeeded.
LockPost_Code0(t) ==
    /\ pc[t].stage = "lock_post"
    /\ before' = lksmith_postlock_before(before, held[t], pc[t].lock, 0)
    /\ held' = [held EXCEPT ![t] = lksmith_postlock_held(@, pc[t].lock, 0)]
    /\ reported' = reported
    /\ pc' = [pc EXCEPT ![t] = [@ EXCEPT !.stage = "ret"]]
    /\ UNCHANGED <<table, g_recorded_errors, real, ncalls>>

\* lksmith_postlock(lock, ret); return ret;
LockPost(t) ==
    /\ pc[t].stage = "lock_post"
    /\ LET l == pc[t].lock
           ret == pc[t].ret
       IN /\ before' = lksmith_postlock_before(before, held[t], l, ret)
          /\ held' = [held EXCEPT ![t] = lksmith_postlock_held(@, l, ret)]
          /\ reported' = IF ret = 0 /\ pc[t].diag
                         THEN reported \cup {<<x, l>> : x \in Range(held[t])}
                         ELSE reported
          /\ pc' = [pc EXCEPT ![t] = [@ EXCEPT !.stage = "ret", !.ret = ret]]
    /\ UNCHANGED <<table, g_recorded_errors, real, ncalls>>

\* ---------------------------------------------- wrappers: the unlock path
RealUnlock(op, st, t) ==
    CASE op = "mutex_unlock" -> r_pthread_mutex_unlock(st, t)
      [] op = "spin_unlock" -> r_pthread_spin_unlock(st, t)

\* Mutant: the wrapper goes on to the real unlock whatever preunlock says.
UnlockEnter_IgnoreRet(t, l, op) ==
    /\ pc[t].stage = "idle"
    /\ ncalls' = ncalls + 1
    /\ real[l].type # "none"
    /\ LET ret == lksmith_preunlock_ret(held[t], l)
       IN /\ ret # 0 => Len(g_recorded_errors) < MaxErrors
          /\ g_recorded_errors' = IF ret # 0 THEN record_error(g_recorded_errors, ret)
                                  ELSE g_recorded_errors
          /\ pc' = [pc EXCEPT ![t] =
                      [Idle EXCEPT !.stage = "unlock_real",
                                   !.op = op, !.lock = l, !.ret = ret,
                                   !.diag = (ret # 0)]]
    /\ UNCHANGED <<table, before, held, real, reported>>

\* ret = lksmith_preunlock(lock); if (ret) return ret;
UnlockEnter(t, l, op) ==
    /\ pc[t].stage = "idle"
    /\ ncalls' = ncalls + 1
    /\ real[l].type # "none"
    /\ LET ret == lksmith_preunlock_ret(held[t], l)
       IN /\ ret # 0 => Len(g_recorded_errors) < MaxErrors
          /\ g_recorded_errors' = IF ret # 0 THEN record_error(g_recorded_errors, ret)
                                  ELSE g_recorded_errors
          /\ pc' = [pc EXCEPT ![t] =
                      [Idle EXCEPT !.stage = IF ret # 0 THEN "ret" ELSE "unlock_real",
                                   !.op = op, !.lock = l, !.ret = ret,
                                   !.diag = (ret # 0)]]
    /\ UNCHANGED <<table, before, held, real, reported>>

pthread_mutex_unlock(t, l) == l \in Mutexes /\ UnlockEnter(t, l, "mutex_unlock")

pthread_spin_unlock(t, l) == l \in Spins /\ UnlockEnter(t, l, "spin_unlock")

\* Mutant: the wrapper runs postunlock whatever the real unlock returned.
UnlockReal_NoCheck(t) ==
    /\ pc[t].stage = "unlock_real"
    /\ \E o \in RealUnlock(pc[t].op, real[pc[t].lock], t) :
          /\ real' = [real EXCEPT ![pc[t].lock] = o.st]
          /\ pc' = [pc EXCEPT ![t] =
                      [@ EXCEPT !.stage = "unlock_post",
                                !.ret = o.ret, !.called = @ + 1, !.realret = o.ret]]
    /\ UNCHANGED <<table, before, held, g_recorded_errors, reported, ncalls>>

\* ret = r_pthread_..._unlock(lock); if (ret) return ret;
UnlockReal(t) ==
    /\ pc[t].stage = "unlock_real"
    /\ \E o \in RealUnlock(pc[t].op, real[pc[t].lock], t) :
          /\ real' = [real EXCEPT ![pc[t].lock] = o.st]
          /\ pc' = [pc EXCEPT ![t] =
                      [@ EXCEPT !.stage = IF o.ret # 0 THEN "ret" ELSE "unlock_post",
                                !.ret = o.ret, !.called = @ + 1, !.realret = o.ret]]
    /\ UNCHANGED <<table, before, held, g_recorded_errors, reported, ncalls>>

\* Mutant: the wrapper returns 0 without calling postunlock.
UnlockPost_NoPostunlock(t) ==
    /\ pc[t].stage = "unlock_post"
    /\ pc' = [pc EXCEPT ![t] = [@ EXCEPT !.stage = "ret", !.ret = 0]]
    /\ UNCHANGED <<table, before, held, g_recorded_errors, real, reported, ncalls>>

\* lksmith_postunlock(lock); return 0;
UnlockPost(t) ==
    /\ pc[t].stage = "unlock_post"
    /\ held' = [held EXCEPT ![t] = lksmith_postunlock_held(@, pc[t].lock)]
    /\ pc' = [pc EXCEPT ![t] = [@ EXCEPT !.stage = "ret", !.ret = 0]]
    /\ UNCHANGED <<table, before, g_recorded_errors, real, reported, ncalls>>

\* The wrapper has returned; the caller goes on.
Return(t) ==
    /\ pc[t].stage = "ret"
    /\ pc' = [pc EXCEPT ![t] = Idle]
    /\ UNCHANGED <<table, before, held, g_recorded_errors, real, reported, ncalls>>

\* ------------------------------------------------------- mutex type upgrade
g_compatible_with_errcheck ==
    <<PTHREAD_MUTEX_TIMED_NP, PTHREAD_MUTEX_ADAPTIVE_NP, PTHREAD_MUTEX_FAST_NP,
      PTHREAD_MUTEX_NORMAL, PTHREAD_MUTEX_DEFAULT>>

is_compatible_with_errcheck(ty) ==
    \E i \in 1..Len(g_compatible_with_errcheck) : ty = g_compatible_with_errcheck[i]

\* Mutant: the caller's type is handed to the real init as it is.
RealInitType_NoUpgrade(attr) ==
    IF attr = NoAttr THEN PTHREAD_MUTEX_ERRORCHECK ELSE attr

\* The type pthread_mutex_real_init hands to the real init.
RealInitType(attr) ==
    IF attr = NoAttr THEN PTHREAD_MUTEX_ERRORCHECK
    ELSE IF is_compatible_with_errcheck(attr) THEN PTHREAD_MUTEX_ERRORCHECK
    ELSE attr

TypeName(ty) ==
    CASE ty = PTHREAD_MUTEX_RECURSIVE -> "recursive"
      [] ty = PTHREAD_MUTEX_ERRORCHECK -> "errorcheck"
      [] OTHER -> "normal"

\* Initialising may fail for want of memory; initialising a locked primitive
\* again is undefined: the library refuses it or resets the primitive.
r_pthread_mutex_init(st, ty) ==
    {[ret |-> 0, st |-> [type |-> TypeName(ty), owner |-> NoThread, count |-> 0]],
     [ret |-> ENOMEM, st |-> st]}
    \cup (IF Free(st) THEN {} ELSE {[ret |-> EBUSY, st |-> st]})

r_pthread_spin_init(st) ==
    {[ret |-> 0, st |-> [type |-> "spin", owner |-> NoThread, count |-> 0]],
     [ret |-> ENOMEM, st |-> st]}

r_pthread_mutex_destroy(st) ==
    IF Free(st) THEN {[ret |-> 0, st |-> NoPrimitive]}
    ELSE {[ret |-> EBUSY, st |-> st]}

r_pthread_spin_destroy(st) == {[ret |-> 0, st |-> NoPrimitive]}

\* ------------------------------------------------- wrappers: init, destroy
\* Mutant: the wrapper refuses a lock that already has a record.
InitEnter_RefuseLive(t, l, op, attr) ==
    /\ pc[t].stage = "idle"
    /\ ncalls' = ncalls + 1
    /\ table' = lksmith_optional_init(table, l)
    /\ pc' = [pc EXCEPT ![t] =
                [Idle EXCEPT !.stage = IF l \in table THEN "ret" ELSE "init_real",
                             !.op = op, !.lock = l, !.arg = attr, !.had = (l \in table),
                             !.ret = IF l \in table THEN EBUSY ELSE 0]]
    /\ UNCHANGED <<before, held, g_recorded_errors, real, reported>>

\* Mutant: the wrapper registers through an explicit init, which reports a
\* lock that already has a record.
InitEnter_Explicit(t, l, op, attr) ==
    /\ pc[t].stage = "idle"
    /\ ncalls' = ncalls + 1
    /\ l \in table => Len(g_recorded_errors) < MaxErrors
    /\ table' = lksmith_optional_init(table, l)
    /\ g_recorded_errors' = IF l \in table THEN record_error(g_recorded_errors, EINVAL)
                            ELSE g_recorded_errors
    /\ pc' = [pc EXCEPT ![t] = [Idle EXCEPT !.stage = "init_real", !.op = op,
                                            !.lock = l, !.arg = attr, !.had = (l \in table),
                                            !.diag = (l \in table)]]
    /\ UNCHANGED <<before, held, real, reported>>

\* ret = lksmith_optional_init(lock, sleeper); if (ret) return ret;
InitEnter(t, l, op, attr) ==
    /\ pc[t].stage = "idle"
    /\ ncalls' = ncalls + 1
    /\ table' = lksmith_optional_init(table, l)
    /\ pc' = [pc EXCEPT ![t] = [Idle EXCEPT !.stage = "init_real", !.op = op,
                                            !.lock = l, !.arg = attr, !.had = (l \in table)]]
    /\ UNCHANGED <<before, held, g_recorded_errors, real, reported>>

pthread_mutex_init(t, l, attr) == l \in Mutexes /\ InitEnter(t, l, "mutex_init", attr)

pthread_spin_init(t, l) == l \in Spins /\ InitEnter(t, l, "spin_init", NoAttr)

\* ret = pthread_mutex_real_init(mutex, attr): a failure of the real init is
\* reported through lksmith_error.
pthread_mutex_real_init(t) ==
    /\ pc[t].stage = "init_real"
    /\ pc[t].op = "mutex_init"
    /\ \E o \in r_pthread_mutex_init(real[pc[t].lock], RealInitType(pc[t].arg)) :
          /\ o.ret # 0 => Len(g_recorded_errors) < MaxErrors
          /\ real' = [real EXCEPT ![pc[t].lock] = o.st]
          /\ g_recorded_errors' = IF o.ret # 0
                                  THEN record_error(g_recorded_errors, o.ret)
                                  ELSE g_recorded_errors
          /\ pc' = [pc EXCEPT ![t] =
                      [@ EXCEPT !.stage = IF o.ret # 0 THEN "init_undo" ELSE "ret",
                                !.ret = o.ret, !.called = @ + 1, !.realret = o.ret]]
    /\ UNCHANGED <<table, before, held, reported, ncalls>>

\* ret = r_pthread_spin_init(lock, pshared);
SpinInitReal(t) ==
    /\ pc[t].stage = "init_real"
    /\ pc[t].op = "spin_init"
    /\ \E o \in r_pthread_spin_init(real[pc[t].lock]) :
          /\ real' = [real EXCEPT ![pc[t].lock] = o.st]
          /\ pc' = [pc EXCEPT ![t] =
                      [@ EXCEPT !.stage = IF o.ret # 0 THEN "init_undo" ELSE "ret",
                                !.ret = o.ret, !.called = @ + 1, !.realret = o.ret]]
    /\ UNCHANGED <<table, before, held, g_recorded_errors, reported, ncalls>>

\* if (ret) { lksmith_destroy(lock); return ret; }
InitUndo(t) ==
    /\ pc[t].stage = "init_undo"
    /\ LET d == lksmith_destroy_ret(table, pc[t].lock)
       IN /\ d = EBUSY => Len(g_recorded_errors) < MaxErrors
          /\ table' = lksmith_destroy_table(table, pc[t].lock)
          /\ before' = lksmith_destroy_before(before, table, pc[t].lock)
          /\ g_recorded_errors' = IF d = EBUSY THEN record_error(g_recorded_errors, d)
                                  ELSE g_recorded_errors
    /\ pc' = [pc EXCEPT ![t] = [@ EXCEPT !.stage = "ret"]]
    /\ UNCHANGED <<held, real, reported, ncalls>>

\* Mutant: the wrapper goes to the real destroy without telling the tracker.
DestroyEnter_NoTracker(t, l, op, giveup) ==
    /\ pc[t].stage = "idle"
    /\ ncalls' = ncalls + 1
    /\ real[l].type # "none"
    /\ pc' = [pc EXCEPT ![t] = [Idle EXCEPT !.stage = "destroy_real", !.op = op,
                                            !.lock = l]]
    /\ UNCHANGED <<table, before, held, g_recorded_errors, real, reported>>

\* ret = lksmith_destroy(lock), then the wrapper's test of ret.
DestroyEnter(t, l, op, giveup) ==
    /\ pc[t].stage = "idle"
    /\ ncalls' = ncalls + 1
    /\ real[l].type # "none"
    /\ LET ret == lksmith_destroy_ret(table, l)
       IN /\ ret = EBUSY => Len(g_recorded_errors) < MaxErrors
          /\ table' = lksmith_destroy_table(table, l)
          /\ before' = lksmith_destroy_before(before, table, l)
          /\ g_recorded_errors' = IF ret = EBUSY THEN record_error(g_recorded_errors, ret)
                                  ELSE g_recorded_errors
          /\ pc' = [pc EXCEPT ![t] =
                      [Idle EXCEPT !.stage = IF ret \in giveup THEN "ret" ELSE "destroy_real",
                                   !.op = op, !.lock = l, !.ret = ret,
                                   !.diag = (ret = EBUSY)]]
    /\ UNCHANGED <<held, real, reported>>

\* Mutant: the mutex wrapper gives up on ENOENT as the spinlock wrapper does.
pthread_mutex_destroy_Strict(t, l) ==
    l \in Mutexes /\ DestroyEnter(t, l, "mutex_destroy", {EBUSY, ENOENT})

\* if ((ret != 0) && (ret != ENOENT)) return ret;
pthread_mutex_destroy(t, l) ==
    l \in Mutexes /\ DestroyEnter(t, l, "mutex_destroy", {EBUSY})

\* if (ret) return ret;
pthread_spin_destroy(t, l) ==
    l \in Spins /\ DestroyEnter(t, l, "spin_destroy", {EBUSY, ENOENT})

\* return r_pthread_..._destroy(lock);
DestroyReal(t) ==
    /\ pc[t].stage = "destroy_real"
    /\ \E o \in (IF pc[t].op = "mutex_destroy"
                 THEN r_pthread_mutex_destroy(real[pc[t].lock])
                 ELSE r_pthread_spin_destroy(real[pc[t].lock])) :
          /\ real' = [real EXCEPT ![pc[t].lock] = o.st]
          /\ pc' = [pc EXCEPT ![t] = [@ EXCEPT !.stage = "ret", !.ret = o.ret,
                                               !.called = @ + 1, !.realret = o.ret]]
    /\ UNCHANGED <<table, before, held, g_recorded_errors, reported, ncalls>>

\* ------------------------------------------------------- the interposer
AttrInputs == {NoAttr, PTHREAD_MUTEX_RECURSIVE}

Next ==
    \E t \in Threads :
        \/ \E l \in SpecLocks :
              /\ ncalls < MaxCalls
              /\ \/ \E attr \in AttrInputs : pthread_mutex_init(t, l, attr)
                 \/ pthread_mutex_destroy(t, l)
                 \/ pthread_mutex_trylock(t, l)
                 \/ pthread_mutex_lock(t, l)
                 \/ pthread_mutex_timedlock(t, l)
                 \/ pthread_mutex_unlock(t, l)
                 \/ pthread_spin_init(t, l)
                 \/ pthread_spin_destroy(t, l)
                 \/ pthread_spin_lock(t, l)
                 \/ pthread_spin_trylock(t, l)
                 \/ pthread_spin_unlock(t, l)
        \/ pthread_mutex_real_init(t)
        \/ SpinInitReal(t)
        \/ InitUndo(t)
        \/ DestroyReal(t)
        \/ LockReal(t)
        \/ LockPost(t)
        \/ UnlockReal(t)
        \/ UnlockPost(t)
        \/ Return(t)

Spec == Init /\ [][Next]_vars

\* Callers that only lock and unlock three mutexes, in any order.
NextOrder ==
    \E t \in Threads :
        \/ \E l \in OrderLocks :
              /\ ncalls < MaxOrderCalls
              /\ \/ pthread_mutex_lock(t, l)
                 \/ pthread_mutex_trylock(t, l)
                 \/ pthread_mutex_unlock(t, l)
        \/ LockReal(t)
        \/ LockPost(t)
        \/ UnlockReal(t)
        \/ UnlockPost(t)
        \/ Return(t)

SpecOrder == Init /\ [][NextOrder]_vars

\* Callers that take the three mutexes in the one order L1, L2, L3 and
\* unlock only what they hold.
Rank(l) == CASE l = "L1" -> 1 [] l = "L2" -> 2 [] l = "L3" -> 3 [] OTHER -> 4

\* The primitives thread t has locked.
Owned(t) == {l \in Locks : real[l].owner = t}

InOrder(t, l) == \A x \in Owned(t) : Rank(x) < Rank(l)

NextClean ==
    \E t \in Threads :
        \/ \E l \in OrderLocks :
              /\ ncalls < MaxCleanCalls
              /\ \/ InOrder(t, l) /\ pthread_mutex_lock(t, l)
                 \/ l \in Owned(t) /\ pthread_mutex_unlock(t, l)
        \/ LockReal(t)
        \/ LockPost(t)
        \/ UnlockReal(t)
        \/ UnlockPost(t)
        \/ Return(t)

SpecClean == Init /\ [][NextClean]_vars

\* One caller that takes a lock through its whole life: init, one lock
\* call, unlock, destroy, each call made once the one before it succeeded.
RoundThread == "A"

AllAttrs == {NoAttr} \cup MutexTypes

NextRound ==
    \/ \E l \in Locks :
          \/ /\ ncalls = 0
             /\ \/ \E attr \in AllAttrs : pthread_mutex_init(RoundThread, l, attr)
                \/ pthread_spin_init(RoundThread, l)
          \/ /\ ncalls = 1
             /\ l \in table
             /\ \/ pthread_mutex_lock(RoundThread, l)
                \/ pthread_mutex_trylock(RoundThread, l)
                \/ pthread_mutex_timedlock(RoundThread, l)
                \/ pthread_spin_lock(RoundThread, l)
                \/ pthread_spin_trylock(RoundThread, l)
          \/ /\ ncalls = 2
             /\ l \in Owned(RoundThread)
             /\ \/ pthread_mutex_unlock(RoundThread, l)
                \/ pthread_spin_unlock(RoundThread, l)
          \/ /\ ncalls = 3
             /\ l \in table
             /\ Owned(RoundThread) = {}
             /\ \/ pthread_mutex_destroy(RoundThread, l)
                \/ pthread_spin_destroy(RoundThread, l)
    \/ pthread_mutex_real_init(RoundThread)
    \/ SpinInitReal(RoundThread)
    \/ InitUndo(RoundThread)
    \/ DestroyReal(RoundThread)
    \/ LockReal(RoundThread)
    \/ LockPost(RoundThread)
    \/ UnlockReal(RoundThread)
    \/ UnlockPost(RoundThread)
    \/ Return(RoundThread)

SpecRound == Init /\ [][NextRound]_vars

\* ------------------------------------------------- the test's recorder
\* The codes the recorder is driven with.
RecordedCodes == {EDEADLK, EBUSY}

Count(list, code) == Cardinality({i \in 1..Len(list) : list[i] = code})

\* find_recorded_error's result and the list it leaves: the first node with
\* the expected code is unlinked.
find_recorded_error_found(list, expect) ==
    IF \E i \in 1..Len(list) : list[i] = expect THEN 1 ELSE 0

find_recorded_error_list(list, expect) ==
    IF find_recorded_error_found(list, expect) = 0 THEN list
    ELSE LET i == CHOOSE k \in 1..Len(list) :
                      list[k] = expect /\ \A j \in 1..(k - 1) : list[j] # expect
         IN SubSeq(list, 1, i - 1) \o SubSeq(list, i + 1, Len(list))

\* clear_recorded_errors frees every node and leaves g_recorded_errors
\* pointing at the first freed one.  On an empty list that is the empty
\* list; otherwise what a later traversal sees through the dangling pointer
\* is undefined: any list of codes no longer than the one freed.
clear_recorded_errors_lists(list) ==
    IF list = <<>> THEN {<<>>}
    ELSE UNION {[1..n -> RecordedCodes] : n \in 0..Len(list)}

\* Each recorder function runs under g_recorded_errors_lock: one step.
RecordCall(t, code) ==
    /\ pc[t].stage = "idle"
    /\ Len(g_recorded_errors) < MaxRecorded
    /\ g_recorded_errors' = record_error(g_recorded_errors, code)
    /\ pc' = [pc EXCEPT ![t] = [Idle EXCEPT !.stage = "ret", !.op = "record",
                                            !.arg = code]]
    /\ UNCHANGED <<table, before, held, real, reported, ncalls>>

find_recorded_error(t, expect) ==
    /\ pc[t].stage = "idle"
    /\ g_recorded_errors' = find_recorded_error_list(g_recorded_errors, expect)
    /\ pc' = [pc EXCEPT ![t] =
                [Idle EXCEPT !.stage = "ret", !.op = "find", !.arg = expect,
                             !.ret = find_recorded_error_found(g_recorded_errors, expect)]]
    /\ UNCHANGED <<table, before, held, real, reported, ncalls>>

clear_recorded_errors(t) ==
    /\ pc[t].stage = "idle"
    /\ g_recorded_errors' \in clear_recorded_errors_lists(g_recorded_errors)
    /\ pc' = [pc EXCEPT ![t] = [Idle EXCEPT !.stage = "ret", !.op = "clear"]]
    /\ UNCHANGED <<table, before, held, real, reported, ncalls>>

NextRecorder ==
    \E t \in Threads :
        \/ \E code \in RecordedCodes : RecordCall(t, code)
        \/ \E expect \in RecordedCodes : find_recorded_error(t, expect)
        \/ clear_recorded_errors(t)
        \/ Return(t)

SpecRecorder == Init /\ [][NextRecorder]_vars

\* ======================================================================
\* Properties
\* ======================================================================
UnlockOps == {"mutex_unlock", "spin_unlock"}

\* The step in which thread t enters a lock wrapper.
EntersLock(t) == pc[t].stage = "idle" /\ pc'[t].stage # "idle" /\ pc'[t].op \in LockOps

\* The state of scenario S1 as thread B's trylock(L1) returns: A has done
\* lock(L1); lock(L2); unlock(L2) and B has done lock(L2); trylock(L1).
S1AtTrylockReturn ==
    /\ ncalls = 5
    /\ held["A"] = <<"L1">>
    /\ held["B"] = <<"L2">>
    /\ before = [l \in Locks |-> IF l = "L2" THEN {"L1"} ELSE {}]
    /\ pc["A"].stage = "idle"
    /\ pc["B"].stage = "ret"
    /\ pc["B"].op = "mutex_trylock"
    /\ pc["B"].lock = "L1"

\* C1: a thread that starts lock, trylock or timedlock of L while it holds an
\* X reachable from L gets one EDEADLK diagnostic recorded for every such X
\* (and none otherwise) and goes on to the real acquisition; in scenario S1
\* B's trylock returns EBUSY and exactly one EDEADLK is on record.
C1_InversionReported ==
    /\ [][\A t \in Threads :
            EntersLock(t) =>
                LET inv == Inversions(before, held[t], pc'[t].lock)
                IN /\ g_recorded_errors' =
                          [i \in 1..Len(inv) |-> EDEADLK] \o g_recorded_errors
                   /\ pc'[t].stage = "lock_real"
                   /\ pc'[t].diag = (inv # <<>>)]_vars
    /\ [](S1AtTrylockReturn =>
            pc["B"].ret = EBUSY /\ g_recorded_errors = <<EDEADLK>>)

C1_Witness ==
    /\ S1AtTrylockReturn
    /\ pc["B"].ret = EBUSY
    /\ pc["B"].diag
    /\ g_recorded_errors = <<EDEADLK>>

\* C2: when a lock wrapper returns, the real primitive has been called
\* exactly once and the wrapper's return code is the real primitive's,
\* whether or not prelock emitted a diagnostic.
C2_LockTransparent ==
    \A t \in Threads :
        (pc[t].stage = "ret" /\ pc[t].op \in LockOps) =>
            (pc[t].called = 1 /\ pc[t].ret = pc[t].realret)

C2_Witness ==
    \E t \in Threads :
        /\ pc[t].stage = "ret"
        /\ pc[t].op = "mutex_lock"
        /\ pc[t].diag
        /\ pc[t].called = 1
        /\ pc[t].ret = 0
        /\ g_recorded_errors = <<EDEADLK>>

\* C3: postlock after a successful acquisition of L by T with held sequence
\* H adds the edges X -> L for X in H and no other edge, makes L the last
\* element of T.held and changes no other thread's held sequence.
C3_PostlockSuccess ==
    [][\A t \in Threads :
          (pc[t].stage = "lock_post" /\ pc'[t].stage = "ret" /\ pc[t].ret = 0) =>
              LET l == pc[t].lock
              IN /\ \A x \in Range(held[t]) : x \in before'[l]
                 /\ held'[t] = Append(held[t], l)
                 /\ before'[l] \subseteq before[l] \cup Range(held[t])
                 /\ \A m \in Locks \ {l} : before'[m] = before[m]
                 /\ \A u \in Threads \ {t} : held'[u] = held[u]]_vars

C3_Witness ==
    /\ pc["A"].stage = "ret"
    /\ pc["A"].op = "mutex_lock"
    /\ pc["A"].lock = "L2"
    /\ pc["A"].ret = 0
    /\ held["A"] = <<"L1", "L2">>
    /\ held["B"] = <<"L3">>
    /\ before["L2"] = {"L1"}

\* C4: a lock wrapper changes the order graph and the held sequences only in
\* the postlock of a successful acquisition; every other step of it, the
\* postlock of a failed acquisition included, leaves both as they were.
C4_FailedLockNoChange ==
    [][\A t \in Threads :
          (pc'[t] # pc[t] /\ pc'[t].op \in LockOps
              /\ ~(pc[t].stage = "lock_post" /\ pc[t].ret = 0)) =>
              (before' = before /\ held' = held)]_vars

C4_Witness ==
    \E t \in Threads :
        /\ pc[t].stage = "ret"
        /\ pc[t].op = "mutex_lock"
        /\ pc[t].lock = "L1"
        /\ pc[t].ret = EDEADLK
        /\ real["L1"].type = "errorcheck"
        /\ held[t] = <<"L1">>
        /\ before["L1"] = {}

SilentBefore ==
    [l \in Locks |-> IF l \in table
                     THEN {x \in before[l] \cap table : <<x, l>> \notin reported}
                     ELSE {}]

\* C7: every cycle of the order graph among live locks has an edge whose
\* acquisition prelock reported: the edges that passed admission silently
\* form no cycle.
C7_NoSilentCycle ==
    \A l \in Locks : ~Reachable(SilentBefore, l, l)

\* C8: callers that take locks in one global order and unlock only what they
\* hold get no diagnostic, in any interleaving.
C8_NoFalsePositive == g_recorded_errors = <<>>

C8_Witness ==
    /\ ncalls = 7
    /\ pc["A"].stage = "lock_real"
    /\ pc["A"].lock = "L1"
    /\ pc["B"].stage = "ret"
    /\ pc["B"].op = "mutex_lock"
    /\ pc["B"].lock = "L2"
    /\ held["B"] = <<"L1", "L2">>
    /\ before["L2"] = {"L1"}
    /\ g_recorded_errors = <<>>

C10_FailedUnlockKeepsHeld ==
    [][\A t \in Threads :
          (pc[t].stage = "unlock_real" /\ pc'[t] # pc[t] /\ pc'[t].realret # 0) =>
              /\ pc'[t].stage = "ret"
              /\ pc'[t].ret = pc'[t].realret
              /\ held' = held
              /\ pc[t].lock \in Range(held'[t])]_vars

C10_Witness ==
    \E t \in Threads :
        /\ pc[t].stage = "ret"
        /\ pc[t].op = "mutex_unlock"
        /\ ~pc[t].diag
        /\ pc[t].called = 1
        /\ pc[t].ret = EPERM
        /\ pc[t].lock \in Range(held[t])

DestroyOps == {"mutex_destroy", "spin_destroy"}

\* C11: a destroy wrapper entered for a lock that some thread has in its
\* held sequence records EBUSY, returns EBUSY without calling the real
\* destroy, and leaves the registry and every held sequence as they were.
C11_DestroyWhileHeld ==
    [][\A t \in Threads :
          (pc[t].stage = "idle" /\ pc'[t].op \in DestroyOps /\ InUse(pc'[t].lock)) =>
              /\ g_recorded_errors' = <<EBUSY>> \o g_recorded_errors
              /\ pc'[t].stage = "ret"
              /\ pc'[t].ret = EBUSY
              /\ pc'[t].called = 0
              /\ table' = table
              /\ held' = held]_vars

\* C12: every lock in a held sequence has a record in the registry.
C12_HeldHaveRecords ==
    \A t \in Threads : Range(held[t]) \subseteq table

\* C13: no lock appears more than once in a thread's held sequence.
C13_NoDuplicateHeld ==
    \A t \in Threads :
        \A i, j \in 1..Len(held[t]) : i # j => held[t][i] # held[t][j]

InitOps == {"mutex_init", "spin_init"}

\* The step in which thread t enters an init wrapper, which calls
\* lksmith_optional_init.
EntersInit(t) == pc[t].stage = "idle" /\ pc'[t].stage # "idle" /\ pc'[t].op \in InitOps

\* C14: optional_init succeeds whether or not the lock has a record, leaves
\* a registry that already holds the record as it is (the record, the
\* before-sets and every other record), emits no diagnostic, and running it
\* once more on the result changes nothing.
C14_OptionalInitIdempotent ==
    [][\A t \in Threads :
          EntersInit(t) =>
              /\ pc'[t].stage = "init_real"
              /\ pc'[t].ret = 0
              /\ table' = table \cup {pc'[t].lock}
              /\ (pc'[t].lock \in table => table' = table)
              /\ lksmith_optional_init(table', pc'[t].lock) = table'
              /\ before' = before
              /\ g_recorded_errors' = g_recorded_errors]_vars

\* Two threads have run optional_init on L1 one after the other.
C14_Witness ==
    /\ ncalls = 2
    /\ \A t \in Threads :
          pc[t].stage = "init_real" /\ pc[t].op = "mutex_init" /\ pc[t].lock = "L1"
    /\ table = {"L1"}
    /\ g_recorded_errors = <<>>

\* C15: when the destroy that ends init; lock; unlock; destroy of one lock
\* by one thread returns, it has called the real destroy and returns 0, the
\* registry has no record, no held sequence has an entry and no diagnostic
\* was recorded.
C15_RoundTrip ==
    (/\ ncalls = 4
     /\ pc[RoundThread].stage = "ret"
     /\ pc[RoundThread].op \in DestroyOps) =>
        /\ pc[RoundThread].ret = 0
        /\ pc[RoundThread].called = 1
        /\ table = {}
        /\ \A t \in Threads : held[t] = <<>>
        /\ g_recorded_errors = <<>>

C15_Witness ==
    /\ ncalls = 4
    /\ pc[RoundThread].stage = "ret"
    /\ pc[RoundThread].op = "mutex_destroy"
    /\ pc[RoundThread].lock = "L1"
    /\ pc[RoundThread].ret = 0
    /\ real["L1"].type = "none"
    /\ before["L1"] = {}
    /\ table = {}

\* The attribute arguments whose mutex is initialised as error-checking.
Promoted ==
    {NoAttr, PTHREAD_MUTEX_NORMAL, PTHREAD_MUTEX_DEFAULT, PTHREAD_MUTEX_TIMED_NP,
     PTHREAD_MUTEX_ADAPTIVE_NP, PTHREAD_MUTEX_FAST_NP}

\* C17: the real mutex init is given the error-checking type when there is
\* no attribute set or its type is NORMAL, DEFAULT, TIMED, ADAPTIVE or FAST,
\* and the caller's own type when that is RECURSIVE or ERRORCHECK; the mutex
\* a successful pthread_mutex_init leaves behind has that type.
C17_TypeUpgrade ==
    /\ \A attr \in AllAttrs :
          RealInitType(attr) = IF attr \in Promoted THEN PTHREAD_MUTEX_ERRORCHECK
                               ELSE attr
    /\ AllAttrs \ Promoted = {PTHREAD_MUTEX_RECURSIVE, PTHREAD_MUTEX_ERRORCHECK}
    /\ \A t \in Threads :
          (pc[t].stage = "ret" /\ pc[t].op = "mutex_init" /\ pc[t].ret = 0) =>
              real[pc[t].lock].type =
                  IF pc[t].arg = PTHREAD_MUTEX_RECURSIVE THEN "recursive"
                  ELSE "errorcheck"

C17_Witness ==
    /\ pc[RoundThread].stage = "ret"
    /\ pc[RoundThread].op = "mutex_init"
    /\ pc[RoundThread].arg = PTHREAD_MUTEX_ADAPTIVE_NP
    /\ pc[RoundThread].ret = 0
    /\ pc[RoundThread].called = 1
    /\ real[pc[RoundThread].lock].type = "errorcheck"

C18_DestroyUnknownBenign ==
    /\ [][\A t \in Threads :
            (pc[t].stage = "idle" /\ pc'[t].op = "mutex_destroy"
                /\ pc'[t].lock \notin table) =>
                /\ pc'[t].ret = ENOENT
                /\ pc'[t].stage = "destroy_real"
                /\ pc'[t].called = 0
                /\ table' = table
                /\ before' = before]_vars
    /\ [][\A t \in Threads :
            (pc[t].stage = "destroy_real" /\ pc[t].op = "mutex_destroy"
                /\ pc'[t] # pc[t]) =>
                /\ pc'[t].stage = "ret"
                /\ pc'[t].called = 1
                /\ pc'[t].ret = pc'[t].realret
                /\ table' = table
                /\ before' = before]_vars

\* The first call of the run destroyed the static mutex L1, which the
\* tracker had never seen.
C18_Witness ==
    \E t \in Threads :
        /\ ncalls = 1
        /\ pc[t].stage = "ret"
        /\ pc[t].op = "mutex_destroy"
        /\ pc[t].lock = "L1"
        /\ pc[t].called = 1
        /\ pc[t].ret = 0
        /\ real["L1"].type = "none"
        /\ table = {}

\* C19: when the real init has failed and the init wrapper has undone its
\* registration, the wrapper returns the real init's code and the lock has
\* a record exactly if it had one when the wrapper was entered.
C19_FailedInitRestoresRegistry ==
    [][\A t \in Threads :
          (pc[t].stage = "init_undo" /\ pc'[t].stage = "ret") =>
              /\ pc'[t].ret = pc[t].realret
              /\ pc'[t].ret # 0
              /\ (pc[t].lock \in table') = pc[t].had]_vars

\* C20: recording a code adds one entry with that code and no other;
\* find_recorded_error returns 1 exactly when the code is in the list and
\* then removes one entry with that code and no other; after
\* clear_recorded_errors the list is empty.
C20_ExactMultiset ==
    [][\A t \in Threads :
          (pc[t].stage = "idle" /\ pc'[t].stage = "ret") =>
              /\ pc'[t].op = "record" =>
                    \A c \in RecordedCodes :
                        Count(g_recorded_errors', c) =
                            Count(g_recorded_errors, c)
                                + (IF c = pc'[t].arg THEN 1 ELSE 0)
              /\ pc'[t].op = "find" =>
                    /\ pc'[t].ret = IF Count(g_recorded_errors, pc'[t].arg) > 0
                                    THEN 1 ELSE 0
                    /\ \A c \in RecordedCodes :
                          Count(g_recorded_errors', c) =
                              Count(g_recorded_errors, c)
                                  - (IF c = pc'[t].arg THEN pc'[t].ret ELSE 0)
              /\ pc'[t].op = "clear" => g_recorded_errors' = <<>>]_vars

====
